---------------------------- MODULE Spec2Model ----------------------------
(***************************************************************************)
(* A model of the seeders of couchbase_medium.                             *)
(*                                                                         *)
(* Spec       generate_plates.py: main() run after run against one target  *)
(*            collection: resume query, record generation and batching,    *)
(*            round-robin dispatch to worker threads, process_batch with   *)
(*            its retry loop, the join and the final summary.              *)
(* SpecBatch  the three batching loops (generate_plates.main,              *)
(*            generate_brand_data, generate_car_model_data) applied to     *)
(*            inputs drawn from bounded sets.                              *)
(* SpecKeys   the three key generators applied to two counters.            *)
(* SpecWrite  the sequential writers: generate_brands.py,                  *)
(*            generate_models.py, process_batch as one call, and           *)
(*            source_2_destination.py.                                     *)
(* SpecScenario   generate_plates.py with total 250, batch_size 100 and    *)
(*            4 threads in insert mode on an empty collection.             *)
(* SpecLive   one run of generate_plates.py under weak fairness.           *)
(* SpecResume get_highest_existing_index with its attempts logged.         *)
(* SpecProvision  the functions that ensure a scope and a collection, with *)
(*            another party creating them concurrently.                    *)
(* SpecReplicate  source_2_destination.py with no store call failing.      *)
(* SpecRetry  one run of generate_plates.py with the store calls and the   *)
(*            delays of process_batch logged per batch.                    *)
(* SpecTransfer   source_2_destination.py with the collections whose id    *)
(*            query raised logged.                                         *)
(***************************************************************************)
EXTENDS Integers, Sequences, FiniteSets, TLC

(***************************************************************************)
(* Bounds of the model.                                                    *)
(***************************************************************************)
\* args.total is drawn from 0..MaxTotal (and KeyWrap, see Totals)
MaxTotal == 3
\* connection_details["batch_size"] is drawn from 1..MaxBatchSize
MaxBatchSize == 2
\* args.threads is drawn from 1..MaxThreads
MaxThreads == 2
\* SpecBatch: length of the input sequence, and the batch size
MaxItems == 7
MaxBatch == 4
\* SpecBatch: the cars of the input have up to MaxPerCar models each
MaxPerCar == 2
\* SpecKeys: the counters 0..MaxCounter, next to the ones where a key gets
\* another digit
MaxCounter == 3
\* SpecWrite: records in an input file, and batch_size
MaxRecords == 3
MaxSeedBatch == 2
\* SpecWrite: source collections listed, and documents in one of them
MaxCollections == 2
MaxDocs == 2
\* SpecProvision: calls of a provisioning function, one after the other
MaxCalls == 2

(***************************************************************************)
(* Program constants.                                                      *)
(***************************************************************************)
\* f"car_plates_{index:09d}": the width of the zero-padded suffix
KeyWidth == 9
\* len("car_plates_")
PrefixLen == 11
\* SUBSTR(META().id, 12)
SubstrPos == 12
\* process_batch(..., retries=3, ...)
BatchRetries == 3
\* get_highest_existing_index(..., retries=10, delay=1)
QueryRetries == 10
\* create_scope_and_collection: `for _ in range(10)`
QueryableChecks == 10

KeyPrefix == "car_plates_"

(***************************************************************************)
(* Keys: generate_document_key, and the resume query's reading of a key.   *)
(***************************************************************************)
RECURSIVE Pow10(_)
Pow10(n) == IF n = 0 THEN 1 ELSE 10 * Pow10(n - 1)

\* the decimal digits of n >= 0, most significant first
RECURSIVE Digits(_)
Digits(n) == IF n < 10 THEN <<n>> ELSE Append(Digits(n \div 10), n % 10)

\* a field of exactly `width` digits: the higher digits are cut off
ZeroPad_cut(ds, width) ==
    [i \in 1 .. width |->
        IF i + Len(ds) - width >= 1 THEN ds[i + Len(ds) - width] ELSE 0]

\* format(n, "09d"): at least `width` digits, padded with zeros on the left
RECURSIVE ZeroPad(_, _)
ZeroPad(ds, width) == IF Len(ds) >= width THEN ds ELSE ZeroPad(<<0>> \o ds, width)

\* a key that two neighbouring counters share
generate_document_key_shared(index) ==
    [prefix |-> KeyPrefix, suffix |-> ZeroPad(Digits(index \div 2), KeyWidth)]

generate_document_key(index) ==
    [prefix |-> KeyPrefix, suffix |-> ZeroPad(Digits(index), KeyWidth)]

\* N1QL SUBSTR(str, pos): the characters of str from the 0-based position pos
\* on.  The prefix takes positions 0..PrefixLen-1, so of a key it leaves the
\* suffix without its first pos - PrefixLen digits.
Substr(key, pos) ==
    IF pos <= PrefixLen
    THEN key.suffix
    ELSE SubSeq(key.suffix, pos - PrefixLen + 1, Len(key.suffix))

\* N1QL TO_NUMBER of a string of digits
RECURSIVE ToNumber(_)
ToNumber(ds) ==
    IF ds = <<>> THEN 0 ELSE 10 * ToNumber(SubSeq(ds, 1, Len(ds) - 1)) + ds[Len(ds)]

\* the counter a key was made from
KeyIndex(key) == ToNumber(key.suffix)

SetMax(S) == CHOOSE x \in S : \A y \in S : y <= x

Max(a, b) == IF a >= b THEN a ELSE b
Min(a, b) == IF a <= b THEN a ELSE b

\* the first total whose key suffix has a non-zero leading digit
KeyWrap == Pow10(KeyWidth - 1)


(***************************************************************************)
(* The state.                                                              *)
(*                                                                         *)
(* The target collection is bulk and docs together: the documents with     *)
(* counters 1..bulk, written by earlier complete runs and kept as a count, *)
(* and docs, the documents written one by one (a write to a key at or      *)
(* below bulk is kept in docs and read before the bulk document).          *)
(***************************************************************************)
VARIABLES
    bulk,           \* counters 1..bulk are stored (earlier complete runs)
    docs,           \* key -> document: the collection's other documents
    mode,           \* args.mode
    threads,        \* args.threads
    batch_size,     \* connection_details["batch_size"]
    pc,             \* main's position
    attempt,        \* get_highest_existing_index: the loop's attempt
    query_failed,   \* get_highest_existing_index returned 0 from its except branch
    highest_index,  \* main: highest_index
    total,          \* args.total (-1 before it is read)
    batches,        \* main: batches, each a sequence of <<key, document>>
    wphase,         \* per worker: inflight | sleeping | finished | raised
    wpos,           \* per worker: position in its slice of the batch in hand
    wattempt,       \* per worker: process_batch's attempt
    fault,          \* the store refuses every write of this run: none | permanent
    results,        \* per batch: pending | ok | failed | raised
    processed,      \* the count of the "Processed ..." summary (-1: not emitted)
    docs0,          \* docs when this run started
    prev,           \* between runs: the total of the run before and how it ended
    after,          \* this run has the total of the run before, which ended so
    startup,        \* how main's start went (none before the process starts)
    items,          \* SpecBatch: the number of input records
    size,           \* SpecBatch: batch_size
    per_car,        \* SpecBatch: models per car of the input
    yielded,        \* SpecBatch: the batches a batching loop produced
    batcher,        \* SpecBatch: which loop produced them
    counter_a,      \* SpecKeys: the counter of one record
    counter_b,      \* SpecKeys: the counter of another record
    key_a,          \* SpecKeys: the key generated for counter_a
    key_b,          \* SpecKeys: the key generated for counter_b
    keyed,          \* SpecKeys: which generator made the keys
    program,        \* SpecWrite: brands | models | plates | replicate
    s_mode,         \* SpecWrite: args.mode of the seeder
    s_size,         \* SpecWrite: batch_size of the seeder
    s_pc,           \* SpecWrite: the seeder's position: idle | running | done
    s_todo,         \* SpecWrite: the batches the seeder's loop has still to process
    store,          \* SpecWrite: key -> document: the collection written to
    stats,          \* SpecWrite: generate_brands.main: stats
    failed_documents, \* SpecWrite: process_car_models: the last call's list
    total_processed,  \* SpecWrite: generate_models.main: total_processed
    s_last,         \* SpecWrite: the last call: its batch and how it ended
    source,         \* SpecWrite: per source collection, the number of its documents
    target_colls,   \* SpecWrite: the collections that exist in the target scope
    r_pc,           \* SpecWrite: source_2_destination.main's position
    r_coll,         \* SpecWrite: position of src_coll_name in src_collection_list
    r_rows,         \* SpecWrite: the rows of the query still to be handled
    r_provision,    \* SpecWrite: per collection, how ensuring its target went
    r_gets,         \* SpecWrite: per collection, the point reads issued
    r_upserts,      \* SpecWrite: per collection, the upserts issued
    transferred,    \* SpecWrite: per collection, metrics[...]["transferred"]
    total_docs_transferred, \* SpecWrite: main: total_docs_transferred
    r_last,         \* SpecWrite: the last row handled and how its calls ended
    q_log,          \* SpecResume: the outcomes of the resume query's attempts
    b_log,          \* SpecRetry: per batch, what its process_batch call did
    r_skipped,      \* SpecSkip: the collections whose id query raised
    ns,             \* SpecProvision: what exists of the scope and the collection
    e_tool,         \* SpecProvision: the program whose function ensures them
    e_pc,           \* SpecProvision: the function's position
    e_seen,         \* SpecProvision: what its last get_all_scopes showed
    e_result,       \* SpecProvision: how its last call ended
    e_calls,        \* SpecProvision: the calls that have ended
    e_tries         \* SpecProvision: the failed checks that the collection is queryable

plateVars == <<bulk, docs, mode, threads, batch_size, pc, attempt,
               query_failed, highest_index, total, batches, wphase, wpos,
               wattempt, fault, results, processed, docs0, prev, after,
               startup>>
batchVars == <<items, size, per_car, yielded, batcher>>
\* the variables of the other programs, which generate_plates.py leaves alone
replVars == <<source, target_colls, r_pc, r_coll, r_rows, r_provision, r_gets,
              r_upserts, transferred, total_docs_transferred, r_last>>
keyVars == <<counter_a, counter_b, key_a, key_b, keyed>>
seedVars == <<program, s_mode, s_size, s_pc, s_todo, store, stats,
              failed_documents, total_processed, s_last, replVars>>
provVars == <<ns, e_tool, e_pc, e_seen, e_result, e_calls, e_tries>>
\* the variables of the resume query's log and of the provisioning functions
auxVars == <<q_log, b_log, r_skipped, provVars>>
restVars == <<batchVars, keyVars, seedVars, auxVars>>
\* the variables the batching loops leave alone
exceptBatch == <<plateVars, keyVars, seedVars, auxVars>>
\* the variables the key generators leave alone
exceptKeys == <<plateVars, batchVars, seedVars, auxVars>>
\* the variables the sequential writers leave alone
exceptSeed == <<plateVars, batchVars, keyVars, auxVars>>
vars == <<plateVars, restVars>>

Modes == {"insert", "upsert"}
\* args.total: small totals, and the first total with a 9-digit counter
Totals == (0 .. MaxTotal) \cup {KeyWrap}
\* what the collection holds from earlier complete runs when the model starts
Bulks == {0, KeyWrap - 1}
\* a pool with one worker more than args.threads
Workers_more == 0 .. threads

Workers == 0 .. (threads - 1)

NoRun == [total |-> -1, how |-> "none"]

(***************************************************************************)
(* The collection: lookups and the two bulk writes.                        *)
(***************************************************************************)
Exists(d, key) == key \in DOMAIN d \/ (1 <= KeyIndex(key) /\ KeyIndex(key) <= bulk)

\* documents = {key: document for key, document in batch}: a later pair of
\* the same key replaces an earlier one
Documents(batch) ==
    LET keys == {batch[i][1] : i \in 1 .. Len(batch)}
        last(k) == SetMax({i \in 1 .. Len(batch) : batch[i][1] = k})
    IN  [k \in keys |-> batch[last(k)][2]]

\* collection.insert_multi: only the keys that do not exist yet are added; a
\* key that exists keeps its document
insert_multi(d, documents) ==
    LET added == {k \in DOMAIN documents : ~Exists(d, k)}
    IN  [k \in DOMAIN d \cup added |-> IF k \in DOMAIN d THEN d[k] ELSE documents[k]]

\* an upsert that leaves a key that exists as it is
upsert_multi_keep(d, documents) ==
    [k \in DOMAIN d \cup DOMAIN documents |->
        IF k \in DOMAIN d THEN d[k] ELSE documents[k]]

\* collection.upsert_multi: every key gets the batch's document
upsert_multi(d, documents) ==
    [k \in DOMAIN d \cup DOMAIN documents |->
        IF k \in DOMAIN documents THEN documents[k] ELSE d[k]]


(***************************************************************************)
(* get_highest_existing_index: the row the query returns.                  *)
(***************************************************************************)
\* TO_NUMBER(SUBSTR(META().id, 12)) of one key
SuffixNumber(key) == ToNumber(Substr(key, SubstrPos))

\* the values MAX() ranges over.  Every counter in 1..bulk is below KeyWrap,
\* where SuffixNumber grows with the counter, so the largest of them is that
\* of the key of bulk itself.
SuffixNumbers(d) ==
    {SuffixNumber(k) : k \in DOMAIN d}
        \cup (IF bulk > 0 THEN {SuffixNumber(generate_document_key(bulk))} ELSE {})

\* the query returned a row: int(max_index), or 0 when max_index is NULL
HighestIndexOfRow(d) ==
    IF SuffixNumbers(d) = {} THEN 0 ELSE SetMax(SuffixNumbers(d))

\* a loop that gives up one attempt early
QueryRetryAllowed_early(a) == a < QueryRetries - 2

\* `"Keyspace not found" in str(e) and attempt < retries - 1`
QueryRetryAllowed(a) == a < QueryRetries - 1

(***************************************************************************)
(* main: generation and batching.                                          *)
(***************************************************************************)
\* the document generated for a counter: the draws of `random` (plate, brand,
\* model) stand as one value, a different one for each counter
Document(index) == [random |-> index, isParked |-> FALSE, isPaid |-> FALSE]

generate_license_plate_data(index) ==
    <<generate_document_key(index), Document(index)>>

\* a batching loop that closes a batch one record late
BatchFull_late(batch, bsize) == Len(batch) > bsize

\* `if len(batch) >= batch_size`
BatchFull(batch, bsize) == Len(batch) >= bsize

\* the iterations of the loop up to the one that closes the batch or is the
\* last: `batch.append(...)`, then `if len(batch) >= batch_size`
RECURSIVE FillBatch(_, _, _, _, _)
FillBatch(i, total_to_generate, start_index, bsize, batch) ==
    LET b2 == Append(batch, generate_license_plate_data(start_index + i))
    IN  IF BatchFull(b2, bsize) \/ i + 1 >= total_to_generate
        THEN b2
        ELSE FillBatch(i + 1, total_to_generate, start_index, bsize, b2)

\* for i in range(total_to_generate): ... ; if batch: batches.append(batch)
RECURSIVE BatchingLoop(_, _, _, _, _, _)
BatchingLoop(i, total_to_generate, start_index, bsize, batch, acc) ==
    IF i >= total_to_generate
    THEN (IF batch # <<>> THEN Append(acc, batch) ELSE acc)
    ELSE LET b2 == FillBatch(i, total_to_generate, start_index, bsize, batch)
             i2 == i + Len(b2) - Len(batch)
         IN  IF BatchFull(b2, bsize)
             THEN BatchingLoop(i2, total_to_generate, start_index, bsize,
                               <<>>, Append(acc, b2))
             ELSE BatchingLoop(i2, total_to_generate, start_index, bsize,
                               b2, acc)

\* a run that leaves its last record out
TotalToGenerate_short(t, h) == Max(0, t - h - 1)

TotalToGenerate(t, h) == Max(0, t - h)

\* a generation that starts at the resume offset itself
MakeBatches_from(t, h, bsize) ==
    BatchingLoop(0, TotalToGenerate(t, h), h, bsize, <<>>, <<>>)

MakeBatches(t, h, bsize) ==
    BatchingLoop(0, TotalToGenerate(t, h), h + 1, bsize, <<>>, <<>>)

\* batches[w::nthreads], as the positions in batches (from 1) of its elements
\* a slice that takes every batch from its first one on
Strided_all(from, n, step) == [j \in 1 .. Max(0, n - from + 1) |-> from + j - 1]

RECURSIVE Strided(_, _, _)
Strided(from, n, step) ==
    IF from > n THEN <<>> ELSE <<from>> \o Strided(from + step, n, step)

batch_slices(w) == Strided(w + 1, Len(batches), threads)


(***************************************************************************)
(* generate_plates.py: the process.                                        *)
(***************************************************************************)
BatchIdle ==
    /\ items = 0
    /\ size = 1
    /\ per_car = 1
    /\ yielded = <<>>
    /\ batcher = "none"

KeysIdle ==
    /\ counter_a = 0
    /\ counter_b = 0
    /\ key_a = <<>>
    /\ key_b = <<>>
    /\ keyed = "none"

\* stats = {"successful": 0, "skipped": 0, "failed": 0}
NoStats == [successful |-> 0, skipped |-> 0, failed |-> 0]

NoCall == [batch |-> <<>>, outcome |-> "none", before |-> <<>>]

\* src_collection_list, a collection standing for its name
Collections == 1 .. MaxCollections

NoRow == [collection |-> 0, id |-> 0, get |-> "none", upsert |-> "none"]

ReplIdle ==
    /\ source = [c \in Collections |-> 0]
    /\ target_colls = {}
    /\ r_pc = "idle"
    /\ r_coll = 0
    /\ r_rows = <<>>
    /\ r_provision = [c \in Collections |-> "none"]
    /\ r_gets = [c \in Collections |-> 0]
    /\ r_upserts = [c \in Collections |-> 0]
    /\ transferred = [c \in Collections |-> 0]
    /\ total_docs_transferred = 0
    /\ r_last = NoRow

SeedIdle ==
    /\ ReplIdle
    /\ program = "none"
    /\ s_mode = "upsert"
    /\ s_size = 1
    /\ s_pc = "idle"
    /\ s_todo = <<>>
    /\ store = [k \in {} |-> 0]
    /\ stats = NoStats
    /\ failed_documents = <<>>
    /\ total_processed = 0
    /\ s_last = NoCall

AuxIdle ==
    /\ q_log = <<>>
    /\ b_log = <<>>
    /\ r_skipped = {}
    /\ ns = {}
    /\ e_tool = "none"
    /\ e_pc = "idle"
    /\ e_seen = {}
    /\ e_result = "none"
    /\ e_calls = 0
    /\ e_tries = 0

NoWorkers == [w \in {} |-> "none"]

\* the locals of main before anything ran
RunReset ==
    /\ attempt' = 0
    /\ query_failed' = FALSE
    /\ highest_index' = 0
    /\ total' = -1
    /\ batches' = <<>>
    /\ wphase' = NoWorkers
    /\ wpos' = NoWorkers
    /\ wattempt' = NoWorkers
    /\ fault' = "none"
    /\ results' = <<>>
    /\ processed' = -1
    /\ after' = "none"

Init ==
    /\ bulk \in Bulks
    /\ docs = [k \in {} |-> 0]
    /\ mode \in Modes
    /\ threads \in 1 .. MaxThreads
    /\ batch_size \in 1 .. MaxBatchSize
    /\ pc = "idle"
    /\ attempt = 0
    /\ query_failed = FALSE
    /\ highest_index = 0
    /\ total = -1
    /\ batches = <<>>
    /\ wphase = NoWorkers
    /\ wpos = NoWorkers
    /\ wattempt = NoWorkers
    /\ fault = "none"
    /\ results = <<>>
    /\ processed = -1
    /\ docs0 = docs
    /\ prev = NoRun
    /\ after = "none"
    /\ startup = "none"
    /\ BatchIdle
    /\ KeysIdle
    /\ SeedIdle
    /\ AuxIdle

\* every batch this run generated was written, and main reached its summary
RunClean == processed >= 0 /\ \A b \in 1 .. Len(results) : results[b] = "ok"

\* load_connection_details raises ValueError before main's try block
\* (invalid_config); connect_to_couchbase raises (connect_failed);
\* create_scope_and_collection returns False (provision_failed)
StartOutcomes == {"ok", "invalid_config", "connect_failed", "provision_failed"}

\* the exit status of the finished process: 1 when an exception left main
\* (the interpreter prints the traceback), 0 when main returned
ExitCode == IF startup = "invalid_config" THEN 1 ELSE 0

\* a main that goes on to the resume query after a failed provisioning
Start_anyway(outcome) ==
    /\ pc \in {"idle", "done"}
    /\ prev' = IF pc = "idle" THEN prev
               ELSE IF RunClean THEN [total |-> total, how |-> "clean"]
               ELSE NoRun
    /\ RunReset
    /\ docs0' = docs
    /\ startup' = outcome
    /\ pc' = IF outcome \in {"ok", "provision_failed"} THEN "resume" ELSE "done"
    /\ UNCHANGED <<bulk, docs, mode, threads, batch_size, restVars>>

\* the process starts: connect_to_couchbase and create_scope_and_collection.
\* A connection error is re-raised into main's except branch, a provisioning
\* failure makes main return; both end the run before anything is read.
Start(outcome) ==
    /\ pc \in {"idle", "done"}
    /\ prev' = IF pc = "idle" THEN prev
               ELSE IF RunClean THEN [total |-> total, how |-> "clean"]
               ELSE NoRun
    /\ RunReset
    /\ docs0' = docs
    /\ startup' = outcome
    /\ pc' = IF outcome = "ok" THEN "resume" ELSE "done"
    /\ UNCHANGED <<bulk, docs, mode, threads, batch_size, restVars>>

\* one turn of get_highest_existing_index's loop: the query returns a row,
\* or raises and the function sleeps and goes round, or raises and the
\* function returns 0; the function's own attempt counter is gone when it
\* returns
ResumeAttempt(outcome) ==
    /\ pc = "resume"
    /\ \/ /\ outcome = "row"
          /\ highest_index' = HighestIndexOfRow(docs)
          /\ attempt' = 0
          /\ pc' = "generate"
          /\ UNCHANGED query_failed
       \/ /\ outcome = "keyspace_not_found"
          /\ QueryRetryAllowed(attempt)
          /\ attempt' = attempt + 1
          /\ UNCHANGED <<highest_index, pc, query_failed>>
       \/ /\ \/ outcome = "keyspace_not_found" /\ ~QueryRetryAllowed(attempt)
             \/ outcome = "error"
          /\ highest_index' = 0
          /\ query_failed' = TRUE
          /\ attempt' = 0
          /\ pc' = "generate"
    /\ UNCHANGED <<bulk, docs, mode, threads, batch_size, total, batches,
                   wphase, wpos, wattempt, fault, results, processed, docs0,
                   prev, after, startup>>

\* one attempt of get_highest_existing_index's loop
ResumeQuery(outcome) ==
    /\ ResumeAttempt(outcome)
    /\ UNCHANGED restVars

\* main, lines 198-211: the records of this run, batched
Generate(t) ==
    /\ pc = "generate"
    /\ total' = t
    /\ batches' = MakeBatches(t, highest_index, batch_size)
    /\ results' = [b \in 1 .. Len(batches') |-> "pending"]
    /\ after' = IF prev.total = t THEN prev.how ELSE "none"
    /\ prev' = NoRun
    /\ pc' = "dispatch"
    /\ UNCHANGED <<bulk, docs, mode, threads, batch_size, attempt, query_failed,
                   highest_index, wphase, wpos, wattempt, fault, processed,
                   docs0, startup, restVars>>

\* the batch worker w has in hand, as a position in batches
BatchOf(w) == batch_slices(w)[wpos[w]]

\* a retry loop that runs once more than `retries`
AnotherAttempt_more(a) == a + 1 <= BatchRetries

\* `for attempt in range(retries)`: another attempt follows attempt a
AnotherAttempt(a) == a + 1 < BatchRetries

\* `except CouchbaseException`: the errors process_batch catches
Caught(outcome) == outcome \in {"transient", "permanent"}

\* process_batches(batches_slice) at position p of the slice: process_batch
\* has issued the first write of that batch, or the slice is exhausted
PhaseAt(w, p) == IF p <= Len(batch_slices(w)) THEN "inflight" ELSE "finished"

\* main, lines 217-219: one task per slice is submitted to the pool.  From
\* here on the store is in order (f = "none": a write returns, or raises an
\* error that a retry may get past) or refuses every write with the same
\* non-transient error (f = "permanent": no permission to write, a namespace
\* that is not there).
Dispatch(f) ==
    /\ pc = "dispatch"
    /\ fault' = f
    /\ wphase' = [w \in Workers |-> PhaseAt(w, 1)]
    /\ wpos' = [w \in Workers |-> 1]
    /\ wattempt' = [w \in Workers |-> 0]
    /\ pc' = "join"
    /\ UNCHANGED <<bulk, docs, mode, threads, batch_size, attempt,
                   query_failed, highest_index, total, batches, results,
                   processed, docs0, prev, after, startup, restVars>>

\* what a step of a worker leaves alone in the run of generate_plates.py
WorkerLocals ==
    UNCHANGED <<bulk, mode, threads, batch_size, pc, attempt, query_failed,
                highest_index, total, batches, fault, processed, docs0, prev,
                after, startup>>

WorkerFrame == WorkerLocals /\ UNCHANGED restVars

\* a process_batch that notes its result and goes on with the same batch
BatchDone_stay(w, result) ==
    /\ results' = [results EXCEPT ![BatchOf(w)] = result]
    /\ UNCHANGED <<wphase, wpos, wattempt>>

\* process_batch returned (True or False): process_batches goes on
BatchDone(w, result) ==
    /\ results' = [results EXCEPT ![BatchOf(w)] = result]
    /\ wphase' = [wphase EXCEPT ![w] = PhaseAt(w, wpos[w] + 1)]
    /\ wpos' = [wpos EXCEPT ![w] = @ + 1]
    /\ wattempt' = [wattempt EXCEPT ![w] = 0]

\* the write call of process_batch returns or raises
WriteAttempt(w, outcome) ==
    /\ pc = "join"
    /\ wphase[w] = "inflight"
    /\ (outcome = "permanent") = (fault = "permanent")
    /\ \/ /\ outcome = "ok"
          /\ docs' = IF mode = "insert"
                     THEN insert_multi(docs, Documents(batches[BatchOf(w)]))
                     ELSE upsert_multi(docs, Documents(batches[BatchOf(w)]))
          /\ BatchDone(w, "ok")
       \/ /\ Caught(outcome)
          /\ wphase' = [wphase EXCEPT ![w] = "sleeping"]
          /\ UNCHANGED <<docs, results, wpos, wattempt>>
       \/ /\ outcome = "other"
          /\ wphase' = [wphase EXCEPT ![w] = "raised"]
          /\ results' = [results EXCEPT ![BatchOf(w)] = "raised"]
          /\ UNCHANGED <<docs, wpos, wattempt>>
    /\ WorkerLocals

WriteReturns(w, outcome) == WriteAttempt(w, outcome) /\ UNCHANGED restVars

\* a retry loop that never counts its attempts
SleepReturns_again(w) ==
    /\ pc = "join"
    /\ wphase[w] = "sleeping"
    /\ wphase' = [wphase EXCEPT ![w] = "inflight"]
    /\ UNCHANGED <<docs, results, wpos, wattempt>>
    /\ WorkerFrame

\* time.sleep(delay) returns: the loop issues its next attempt, or it has
\* ended and process_batch returns False
SleepReturns(w) ==
    /\ pc = "join"
    /\ wphase[w] = "sleeping"
    /\ IF AnotherAttempt(wattempt[w])
       THEN /\ wattempt' = [wattempt EXCEPT ![w] = @ + 1]
            /\ wphase' = [wphase EXCEPT ![w] = "inflight"]
            /\ UNCHANGED <<results, wpos>>
       ELSE BatchDone(w, "failed")
    /\ UNCHANGED docs
    /\ WorkerFrame

\* the workers the pool has not yet seen return or raise
Running == {w \in Workers : wphase[w] \notin {"finished", "raised"}}

\* the with block ends: as_completed has yielded every future, or
\* future.result() raised and the executor's shutdown waited for the rest
JoinReady == Running = {}

\* main, lines 220-225: the summary, or the except branch; the pool is gone
Join ==
    /\ pc = "join"
    /\ JoinReady
    /\ processed' = IF \E w \in Workers : wphase[w] = "raised"
                    THEN -1
                    ELSE TotalToGenerate(total, highest_index)
    /\ wphase' = NoWorkers
    /\ wpos' = NoWorkers
    /\ wattempt' = NoWorkers
    /\ pc' = "done"
    /\ UNCHANGED <<bulk, docs, mode, threads, batch_size, attempt,
                   query_failed, highest_index, total, batches, fault, results,
                   docs0, prev, after, startup, restVars>>

\* the process is terminated from outside
Interrupt ==
    /\ pc \notin {"idle", "done"}
    /\ prev' = IF total >= 0 THEN [total |-> total, how |-> "interrupted"] ELSE prev
    /\ RunReset
    /\ startup' = "none"
    /\ pc' = "idle"
    /\ UNCHANGED <<bulk, docs, mode, threads, batch_size, docs0, restVars>>

Next ==
    \/ \E o \in StartOutcomes : Start(o)
    \/ \E o \in {"row", "keyspace_not_found", "error"} : ResumeQuery(o)
    \/ \E t \in Totals :
          TotalToGenerate(t, highest_index) <= MaxTotal /\ Generate(t)
    \/ \E f \in {"none", "permanent"} : Dispatch(f)
    \/ \E w \in Workers, o \in {"ok", "transient", "permanent", "other"} :
          WriteReturns(w, o)
    \/ \E w \in Workers : SleepReturns(w)
    \/ Join
    \/ Interrupt

Spec == Init /\ [][Next]_vars

(***************************************************************************)
(* SpecLive: one run of generate_plates.py that nothing terminates from    *)
(* outside.  Every call of the store returns or raises, every sleep ends   *)
(* and a thread that can run does run: while a step of the run is          *)
(* possible, one is taken.                                                 *)
(***************************************************************************)
NextLive ==
    \/ pc = "idle" /\ \E o \in StartOutcomes : Start(o)
    \/ \E o \in {"row", "keyspace_not_found", "error"} : ResumeQuery(o)
    \/ \E t \in Totals :
          TotalToGenerate(t, highest_index) <= MaxTotal /\ Generate(t)
    \/ \E f \in {"none", "permanent"} : Dispatch(f)
    \/ \E w \in Workers, o \in {"ok", "transient", "permanent", "other"} :
          WriteReturns(w, o)
    \/ \E w \in Workers : SleepReturns(w)
    \/ Join

\* the run starts on a collection that holds no record of an earlier run
InitLive == Init /\ bulk = 0

SpecLive == InitLive /\ [][NextLive]_vars /\ WF_vars(NextLive)

(***************************************************************************)
(* SpecRetry: one run of generate_plates.py in which b_log keeps, for      *)
(* every batch, the store calls process_batch made for it, the delays it   *)
(* took and the value of `attempt` at its `return True`.                   *)
(***************************************************************************)
NotCalled == [calls |-> 0, sleeps |-> 0, returned |-> -1]

LogOf(log, b) == IF b \in DOMAIN log THEN log[b] ELSE NotCalled

\* the log after a write of batch b, issued at `attempt` = a, ended in outcome
Logged(log, b, a, outcome) ==
    [x \in DOMAIN log \cup {b} |->
        IF x = b
        THEN [calls |-> LogOf(log, b).calls + 1,
              sleeps |-> LogOf(log, b).sleeps + IF Caught(outcome) THEN 1 ELSE 0,
              returned |-> IF outcome = "ok" THEN a ELSE LogOf(log, b).returned]
        ELSE log[x]]

\* insert_multi or upsert_multi returns or raises, logged
StoreCall(w, outcome) ==
    /\ WriteAttempt(w, outcome)
    /\ b_log' = Logged(b_log, BatchOf(w), wattempt[w], outcome)
    /\ UNCHANGED <<batchVars, keyVars, seedVars, q_log, r_skipped, provVars>>

NextRetry ==
    \/ pc = "idle" /\ \E o \in StartOutcomes : Start(o)
    \/ \E o \in {"row", "keyspace_not_found", "error"} : ResumeQuery(o)
    \/ \E t \in Totals :
          TotalToGenerate(t, highest_index) <= MaxTotal /\ Generate(t)
    \/ \E f \in {"none", "permanent"} : Dispatch(f)
    \/ \E w \in Workers, o \in {"ok", "transient", "permanent", "other"} :
          StoreCall(w, o)
    \/ \E w \in Workers : SleepReturns(w)
    \/ Join

SpecRetry == Init /\ [][NextRetry]_vars


(***************************************************************************)
(* generate_brands.py and generate_models.py: the batch generators.  A     *)
(* Python dict is a sequence of <<key, value>> pairs with no key twice, in *)
(* insertion order.                                                        *)
(***************************************************************************)
DictKeys(d) == {d[i][1] : i \in 1 .. Len(d)}

\* a dict that puts a new key in front of the others
DictSet_front(d, key, value) ==
    IF key \in DictKeys(d)
    THEN [i \in 1 .. Len(d) |-> IF d[i][1] = key THEN <<key, value>> ELSE d[i]]
    ELSE <<<<key, value>>>> \o d

\* d[key] = value
DictSet(d, key, value) ==
    IF key \in DictKeys(d)
    THEN [i \in 1 .. Len(d) |-> IF d[i][1] = key THEN <<key, value>> ELSE d[i]]
    ELSE Append(d, <<key, value>>)

\* f"brand_{counter:03d}"
BrandKey(counter) == [prefix |-> "brand_", suffix |-> ZeroPad(Digits(counter), 3)]

\* f"car_models_{counter:03d}"
CarModelKey(counter) ==
    [prefix |-> "car_models_", suffix |-> ZeroPad(Digits(counter), 3)]

\* `if len(batch) == batch_size`
DictBatchFull(batch, bsize) == Len(batch) = bsize

\* generate_brand_data: the batches it yields, from brands[j] on
RECURSIVE BrandLoop(_, _, _, _, _, _)
BrandLoop(brands, j, counter, bsize, batch, acc) ==
    IF j > Len(brands)
    THEN (IF batch # <<>> THEN Append(acc, batch) ELSE acc)
    ELSE LET b2 == DictSet(batch, BrandKey(counter), brands[j])
         IN  IF DictBatchFull(b2, bsize)
             THEN BrandLoop(brands, j + 1, counter + 1, bsize, <<>>, Append(acc, b2))
             ELSE BrandLoop(brands, j + 1, counter + 1, bsize, b2, acc)

generate_brand_data(brands, start_id, bsize) ==
    BrandLoop(brands, 1, start_id, bsize, <<>>, <<>>)

\* generate_car_model_data: the batches it yields, from model m of car c on
RECURSIVE CarModelLoop(_, _, _, _, _, _, _)
CarModelLoop(cars, c, m, counter, bsize, batch, acc) ==
    IF c > Len(cars)
    THEN (IF batch # <<>> THEN Append(acc, batch) ELSE acc)
    ELSE IF m > Len(cars[c].models)
    THEN CarModelLoop(cars, c + 1, 1, counter, bsize, batch, acc)
    ELSE LET key == CarModelKey(counter)
             car_model_data == [car_model_id |-> key, brand |-> cars[c].brand,
                                model |-> cars[c].models[m]]
             b2 == DictSet(batch, key, car_model_data)
         IN  IF DictBatchFull(b2, bsize)
             THEN CarModelLoop(cars, c, m + 1, counter + 1, bsize, <<>>,
                               Append(acc, b2))
             ELSE CarModelLoop(cars, c, m + 1, counter + 1, bsize, b2, acc)

generate_car_model_data(cars, start_id, bsize) ==
    CarModelLoop(cars, 1, 1, start_id, bsize, <<>>, <<>>)

(***************************************************************************)
(* SpecBatch: the three batching loops on inputs drawn from bounded sets.  *)
(***************************************************************************)
\* car_brands.json: n brands
BrandsInput(n) == [i \in 1 .. n |-> <<"brand", i>>]

\* car_models.json: n models in all, p to a car (the last car has the rest);
\* validate_car_models lets no car have an empty list
CarsInput(n, p) ==
    [c \in 1 .. ((n + p - 1) \div p) |->
        [brand  |-> <<"brand", c>>,
         models |-> [m \in 1 .. Min(p, n - (c - 1) * p) |-> <<"model", (c - 1) * p + m>>]]]

PlatesIdle ==
    /\ bulk = 0
    /\ docs = [k \in {} |-> 0]
    /\ mode = "upsert"
    /\ threads = 1
    /\ batch_size = 1
    /\ pc = "idle"
    /\ attempt = 0
    /\ query_failed = FALSE
    /\ highest_index = 0
    /\ total = -1
    /\ batches = <<>>
    /\ wphase = NoWorkers
    /\ wpos = NoWorkers
    /\ wattempt = NoWorkers
    /\ fault = "none"
    /\ results = <<>>
    /\ processed = -1
    /\ docs0 = docs
    /\ prev = NoRun
    /\ after = "none"
    /\ startup = "none"

InitBatch ==
    /\ PlatesIdle
    /\ KeysIdle
    /\ SeedIdle
    /\ AuxIdle
    /\ items \in 0 .. MaxItems
    /\ size \in 1 .. MaxBatch
    /\ per_car \in 1 .. MaxPerCar
    /\ yielded = <<>>
    /\ batcher = "none"

\* generate_plates.main's loop for total_to_generate = items, from counter 1
BatchPlates ==
    /\ batcher = "none"
    /\ yielded' = BatchingLoop(0, items, 1, size, <<>>, <<>>)
    /\ batcher' = "plates"
    /\ UNCHANGED <<items, size, per_car, exceptBatch>>

\* list(generate_brand_data(brands, start_id=1, batch_size=size))
BatchBrands ==
    /\ batcher = "none"
    /\ yielded' = generate_brand_data(BrandsInput(items), 1, size)
    /\ batcher' = "brands"
    /\ UNCHANGED <<items, size, per_car, exceptBatch>>

\* list(generate_car_model_data(cars, start_id=1, batch_size=size))
BatchModels ==
    /\ batcher = "none"
    /\ yielded' = generate_car_model_data(CarsInput(items, per_car), 1, size)
    /\ batcher' = "models"
    /\ UNCHANGED <<items, size, per_car, exceptBatch>>

NextBatch == BatchPlates \/ BatchBrands \/ BatchModels

SpecBatch == InitBatch /\ [][NextBatch]_vars


(***************************************************************************)
(* SpecKeys: the three key generators on two counters.                     *)
(***************************************************************************)
\* the small counters, and those around which a key outgrows its padding
\* (03d, 09d) or gets a non-zero leading digit
KeyCounters ==
    (0 .. MaxCounter)
        \cup {99, 100, 999, 1000, KeyWrap - 1, KeyWrap, 10 * KeyWrap - 1, 10 * KeyWrap}

InitKeys ==
    /\ PlatesIdle
    /\ BatchIdle
    /\ SeedIdle
    /\ AuxIdle
    /\ counter_a \in KeyCounters
    /\ counter_b \in KeyCounters
    /\ key_a = <<>>
    /\ key_b = <<>>
    /\ keyed = "none"

\* the key of the one record a generator yields for one input and start_id c
FirstKey(yield) == yield[1][1][1]

\* document_key of generate_license_plate_data(index, cars_data)
KeyPlates ==
    /\ keyed = "none"
    /\ key_a' = generate_license_plate_data(counter_a)[1]
    /\ key_b' = generate_license_plate_data(counter_b)[1]
    /\ keyed' = "plates"
    /\ UNCHANGED <<counter_a, counter_b, exceptKeys>>

\* the key generate_brand_data gives the record with the counter
KeyBrands ==
    /\ keyed = "none"
    /\ key_a' = FirstKey(generate_brand_data(BrandsInput(1), counter_a, 1))
    /\ key_b' = FirstKey(generate_brand_data(BrandsInput(1), counter_b, 1))
    /\ keyed' = "brands"
    /\ UNCHANGED <<counter_a, counter_b, exceptKeys>>

\* the key generate_car_model_data gives the record with the counter
KeyModels ==
    /\ keyed = "none"
    /\ key_a' = FirstKey(generate_car_model_data(CarsInput(1, 1), counter_a, 1))
    /\ key_b' = FirstKey(generate_car_model_data(CarsInput(1, 1), counter_b, 1))
    /\ keyed' = "models"
    /\ UNCHANGED <<counter_a, counter_b, exceptKeys>>

NextKeys == KeyPlates \/ KeyBrands \/ KeyModels

SpecKeys == InitKeys /\ [][NextKeys]_vars


(***************************************************************************)
(* SpecWrite: the programs that write one batch after the other:           *)
(* generate_brands.py, generate_models.py, and process_batch of            *)
(* generate_plates.py as one call.  A program runs any number of times on  *)
(* the same collection, its input file edited or not between the runs.     *)
(***************************************************************************)
\* car_brands.json with n brands, as it was or with every brand replaced
BrandsFile(n, edited) ==
    IF edited THEN [i \in 1 .. n |-> <<"brand", n + i>>] ELSE BrandsInput(n)

\* an insert loop that stores every record, over a key that exists too
InsertEach_overwrite(d, batch, m) ==
    [store    |-> upsert_multi(d, Documents(SubSeq(batch, 1, m))),
     inserted |-> m,
     existing |-> <<>>]

\* `for key, value in batch.items(): collection.insert(key, value)` over the
\* first m records of the batch: a key that exists raises
\* DocumentExistsException and is passed over, the others are stored
RECURSIVE InsertEach(_, _, _)
InsertEach(d, batch, m) ==
    IF m = 0
    THEN [store |-> d, inserted |-> 0, existing |-> <<>>]
    ELSE LET a == InsertEach(d, batch, m - 1)
             key == batch[m][1]
         IN  IF key \in DOMAIN a.store
             THEN [a EXCEPT !.existing = Append(@, key)]
             ELSE [a EXCEPT !.store = upsert_multi(@, Documents(<<batch[m]>>)),
                            !.inserted = @ + 1]

\* how a call ends that handled m records of its batch before a store error
\* (err) or handled them all
CallEnds(batch, m, err) ==
    /\ m \in 0 .. Len(batch)
    /\ ~err => m = Len(batch)
    /\ (err /\ s_mode = "insert") => m < Len(batch)

\* the record of a call: its batch, how it ended, and the documents the
\* collection held under the batch's keys when the call began
Called(batch, err) ==
    [batch   |-> batch,
     outcome |-> IF err THEN "store_error" ELSE "returned",
     before  |-> [k \in DOMAIN Documents(batch) \cap DOMAIN store |-> store[k]]]

SeedFrame == UNCHANGED <<program, s_mode, s_size, replVars, exceptSeed>>

\* generate_brands.main up to its loop
RunBrands(n, edited) ==
    /\ program = "brands"
    /\ s_pc \in {"idle", "done"}
    /\ s_todo' = generate_brand_data(BrandsFile(n, edited), 1, s_size)
    /\ stats' = NoStats
    /\ s_last' = NoCall
    /\ s_pc' = "running"
    /\ UNCHANGED <<store, failed_documents, total_processed>>
    /\ SeedFrame

\* generate_models.main up to its loop
RunModels(n, p) ==
    /\ program = "models"
    /\ s_pc \in {"idle", "done"}
    /\ s_todo' = generate_car_model_data(CarsInput(n, p), 1, s_size)
    /\ total_processed' = 0
    /\ failed_documents' = <<>>
    /\ s_last' = NoCall
    /\ s_pc' = "running"
    /\ UNCHANGED <<store, stats>>
    /\ SeedFrame

\* generate_plates.main up to the dispatch, with resume offset 0
RunPlates(n) ==
    /\ program = "plates"
    /\ s_pc \in {"idle", "done"}
    /\ s_todo' = MakeBatches(n, 0, s_size)
    /\ s_last' = NoCall
    /\ s_pc' = "running"
    /\ UNCHANGED <<store, stats, failed_documents, total_processed>>
    /\ SeedFrame

\* a call that counts the records of an upsert one by one: those written
\* before the error as successful, the others as failed
process_brands_batch_partial(m, err) ==
    /\ program = "brands"
    /\ s_pc = "running"
    /\ s_todo # <<>>
    /\ LET batch == Head(s_todo)
       IN  /\ CallEnds(batch, m, err)
           /\ store' = IF s_mode = "insert"
                       THEN InsertEach(store, batch, m).store
                       ELSE upsert_multi(store, Documents(SubSeq(batch, 1, m)))
           /\ stats' = [successful |-> stats.successful + m,
                        skipped    |-> stats.skipped,
                        failed     |-> stats.failed + (Len(batch) - m)]
           /\ s_last' = Called(batch, err)
    /\ s_todo' = Tail(s_todo)
    /\ UNCHANGED <<s_pc, failed_documents, total_processed>>
    /\ SeedFrame

\* one call of process_brands_batch, on the next batch of main's loop
process_brands_batch(m, err) ==
    /\ program = "brands"
    /\ s_pc = "running"
    /\ s_todo # <<>>
    /\ LET batch == Head(s_todo)
       IN  /\ CallEnds(batch, m, err)
           /\ IF s_mode = "insert"
              THEN LET r == InsertEach(store, batch, m)
                   IN  /\ store' = r.store
                       /\ stats' = [successful |-> stats.successful + r.inserted,
                                    skipped    |-> stats.skipped + Len(r.existing),
                                    failed     |-> stats.failed
                                                   + (IF err THEN Len(batch) ELSE 0)]
              ELSE /\ store' = upsert_multi(store, Documents(SubSeq(batch, 1, m)))
                   /\ stats' = IF err
                               THEN [stats EXCEPT !.failed = @ + Len(batch)]
                               ELSE [stats EXCEPT !.successful = @ + Len(batch)]
           /\ s_last' = Called(batch, err)
    /\ s_todo' = Tail(s_todo)
    /\ UNCHANGED <<s_pc, failed_documents, total_processed>>
    /\ SeedFrame

\* one turn of generate_models.main's loop: process_car_models on the next
\* batch, then total_processed += len(batch)
process_car_models(m, err) ==
    /\ program = "models"
    /\ s_pc = "running"
    /\ s_todo # <<>>
    /\ LET batch == Head(s_todo)
       IN  /\ CallEnds(batch, m, err)
           /\ IF s_mode = "insert"
              THEN LET r == InsertEach(store, batch, m)
                   IN  /\ store' = r.store
                       /\ failed_documents' = r.existing
              ELSE /\ store' = upsert_multi(store, Documents(SubSeq(batch, 1, m)))
                   /\ failed_documents' = <<>>
           /\ total_processed' = total_processed + Len(batch)
           /\ s_last' = Called(batch, err)
    /\ s_todo' = Tail(s_todo)
    /\ UNCHANGED <<s_pc, stats>>
    /\ SeedFrame

\* one call of generate_plates.process_batch, from its first attempt to its
\* return: True when an attempt wrote the batch, False when none did
process_batch(written) ==
    /\ program = "plates"
    /\ s_pc = "running"
    /\ s_todo # <<>>
    /\ LET batch == Head(s_todo)
       IN  /\ store' = IF ~written THEN store
                       ELSE IF s_mode = "insert"
                            THEN insert_multi(store, Documents(batch))
                            ELSE upsert_multi(store, Documents(batch))
           /\ s_last' = Called(batch, ~written)
    /\ s_todo' = Tail(s_todo)
    /\ UNCHANGED <<s_pc, stats, failed_documents, total_processed>>
    /\ SeedFrame

\* the loop over the batches has ended: the summary
SeedEnd ==
    /\ program \in {"brands", "models", "plates"}
    /\ s_pc = "running"
    /\ s_todo = <<>>
    /\ s_pc' = "done"
    /\ UNCHANGED <<s_todo, store, stats, failed_documents, total_processed, s_last>>
    /\ SeedFrame

(***************************************************************************)
(* source_2_destination.py.  The target collection of source collection c  *)
(* has c's name; store holds the target scope's documents under            *)
(* [collection, id].                                                       *)
(***************************************************************************)
\* a target that keeps every document in the first collection
TargetKey_first(c, id) == [collection |-> 1, id |-> id]

TargetKey(c, id) == [collection |-> c, id |-> id]

\* the document the source holds under id in collection c
SourceDoc(c, id) == [collection |-> c, id |-> id, body |-> "source"]

\* a document the target held before the run, under an id the source has too
StaleDoc(c, id) == [collection |-> c, id |-> id, body |-> "stale"]

\* `for src_coll_name in src_collection_list`: the loop's next turn, or the
\* final summary
NextCollection ==
    /\ r_coll' = r_coll + 1
    /\ r_pc' = IF r_coll < MaxCollections THEN "ensure" ELSE "done"
    /\ r_rows' = <<>>

\* what the replication tool leaves alone among the seeders' variables
ReplLocals ==
    UNCHANGED <<program, s_mode, s_size, s_pc, s_todo, stats, failed_documents,
                total_processed, s_last, source>>

ReplFrame == ReplLocals /\ UNCHANGED exceptSeed

\* main, lines 69-109: the configuration is read and both clusters are
\* connected; an error there leaves main
ReplStart(connected) ==
    /\ program = "replicate"
    /\ r_pc = "idle"
    /\ r_coll' = 1
    /\ r_pc' = IF connected THEN "ensure" ELSE "aborted"
    /\ UNCHANGED <<store, target_colls, r_rows, r_provision, r_gets, r_upserts,
                   transferred, total_docs_transferred, r_last>>
    /\ ReplFrame

\* ensure_target_scope_and_collection for the collection in turn.  created:
\* the collection is there when it returns (created now or before);
\* collection_error: create_collection raised a CouchbaseException, which
\* is logged and the function returns; raised: get_all_scopes or create_scope
\* raised, which nothing catches
ensure_target_scope_and_collection(outcome) ==
    /\ program = "replicate"
    /\ r_pc = "ensure"
    /\ outcome = "created" =>
          /\ target_colls' = target_colls \cup {r_coll}
          /\ r_provision' = [r_provision EXCEPT ![r_coll] = "ok"]
          /\ r_pc' = "query"
    /\ outcome = "collection_error" =>
          /\ target_colls' = target_colls
          /\ r_provision' = [r_provision EXCEPT ![r_coll] = "failed"]
          /\ r_pc' = "query"
    /\ outcome = "raised" =>
          /\ target_colls' = target_colls
          /\ r_provision' = [r_provision EXCEPT ![r_coll] = "failed"]
          /\ r_pc' = "aborted"
    /\ UNCHANGED <<store, r_coll, r_rows, r_gets, r_upserts, transferred,
                   total_docs_transferred, r_last>>
    /\ ReplFrame

\* a query whose error is logged and the collection handled all the same
QuerySkips_never(ok) == FALSE

\* `except CouchbaseException as e: ... continue` around the query
QuerySkips(ok) == ~ok

\* main, lines 119-132: the query for the document ids
QueryEnds(ok) ==
    /\ program = "replicate"
    /\ r_pc = "query"
    /\ IF QuerySkips(ok)
       THEN NextCollection
       ELSE /\ r_rows' = [i \in 1 .. source[r_coll] |-> i]
            /\ r_pc' = "rows"
            /\ UNCHANGED r_coll
    /\ UNCHANGED <<store, target_colls, r_provision, r_gets, r_upserts,
                   transferred, total_docs_transferred, r_last>>
    /\ ReplLocals

ReplQuery(ok) == QueryEnds(ok) /\ UNCHANGED exceptSeed

\* a point read that fails and so gives nothing to upsert
ReadFailed_ignored(get) == FALSE

\* `except CouchbaseException as get_err: ... continue`
ReadFailed(get) == get = "failed"

\* counters that are incremented after the try block of the upsert
UpsertCounted_always(upsert) == TRUE

\* lines 161-165: the three increments follow the upsert inside its try, so
\* they are reached only when the upsert returned
UpsertCounted(upsert) == upsert = "ok"

\* main, lines 143-171: one row of the query.  An upsert into a collection
\* that does not exist fails.
ReplRow(get, upsert) ==
    /\ program = "replicate"
    /\ r_pc = "rows"
    /\ r_rows # <<>>
    /\ upsert = "ok" => r_coll \in target_colls
    /\ LET doc_id == Head(r_rows)
           written == ~ReadFailed(get) /\ upsert = "ok"
           counted == ~ReadFailed(get) /\ UpsertCounted(upsert)
       IN  /\ r_gets' = [r_gets EXCEPT ![r_coll] = @ + 1]
           /\ r_upserts' = IF ReadFailed(get) THEN r_upserts
                           ELSE [r_upserts EXCEPT ![r_coll] = @ + 1]
           /\ store' = IF written
                       THEN upsert_multi(store, [k \in {TargetKey(r_coll, doc_id)} |->
                                                    SourceDoc(r_coll, doc_id)])
                       ELSE store
           /\ transferred' = IF counted THEN [transferred EXCEPT ![r_coll] = @ + 1]
                             ELSE transferred
           /\ total_docs_transferred' =
                  IF counted THEN total_docs_transferred + 1
                  ELSE total_docs_transferred
           /\ r_last' = [collection |-> r_coll, id |-> doc_id, get |-> get,
                         upsert |-> IF ReadFailed(get) THEN "none" ELSE upsert]
    /\ r_rows' = Tail(r_rows)
    /\ UNCHANGED <<target_colls, r_pc, r_coll, r_provision>>
    /\ ReplFrame

\* the rows are exhausted: "Finished transferring ..."
ReplFinished ==
    /\ program = "replicate"
    /\ r_pc = "rows"
    /\ r_rows = <<>>
    /\ NextCollection
    /\ UNCHANGED <<store, target_colls, r_provision, r_gets, r_upserts,
                   transferred, total_docs_transferred, r_last>>
    /\ ReplFrame

InitSeeder ==
    /\ program \in {"brands", "models", "plates"}
    /\ s_mode \in Modes
    /\ s_size \in 1 .. MaxSeedBatch
    /\ store = [k \in {} |-> 0]
    /\ ReplIdle

\* the target scope is empty, or has every collection and an older version of
\* the first document of the first one
InitReplicate ==
    /\ program = "replicate"
    /\ s_mode = "upsert"
    /\ s_size = 1
    /\ source \in [Collections -> 0 .. MaxDocs]
    /\ target_colls \in {{}, Collections}
    /\ store = IF target_colls = {} THEN [k \in {} |-> 0]
               ELSE [k \in {TargetKey(1, 1)} |-> StaleDoc(1, 1)]
    /\ r_pc = "idle"
    /\ r_coll = 0
    /\ r_rows = <<>>
    /\ r_provision = [c \in Collections |-> "none"]
    /\ r_gets = [c \in Collections |-> 0]
    /\ r_upserts = [c \in Collections |-> 0]
    /\ transferred = [c \in Collections |-> 0]
    /\ total_docs_transferred = 0
    /\ r_last = NoRow

InitWrite ==
    /\ PlatesIdle
    /\ BatchIdle
    /\ KeysIdle
    /\ AuxIdle
    /\ s_pc = "idle"
    /\ s_todo = <<>>
    /\ stats = NoStats
    /\ failed_documents = <<>>
    /\ total_processed = 0
    /\ s_last = NoCall
    /\ (InitSeeder \/ InitReplicate)

NextWrite ==
    \/ \E n \in 1 .. MaxRecords, edited \in BOOLEAN : RunBrands(n, edited)
    \/ \E n \in 1 .. MaxRecords, p \in 1 .. MaxPerCar : RunModels(n, p)
    \/ \E n \in 1 .. MaxRecords : RunPlates(n)
    \/ \E m \in 0 .. MaxSeedBatch, err \in BOOLEAN : process_brands_batch(m, err)
    \/ \E m \in 0 .. MaxSeedBatch, err \in BOOLEAN : process_car_models(m, err)
    \/ \E written \in BOOLEAN : process_batch(written)
    \/ SeedEnd
    \/ \E connected \in BOOLEAN : ReplStart(connected)
    \/ \E o \in {"created", "collection_error", "raised"} :
          ensure_target_scope_and_collection(o)
    \/ \E ok \in BOOLEAN : ReplQuery(ok)
    \/ \E get \in {"ok", "failed"}, upsert \in {"ok", "failed"} : ReplRow(get, upsert)
    \/ ReplFinished

SpecWrite == InitWrite /\ [][NextWrite]_vars


(***************************************************************************)
(* SpecResume: get_highest_existing_index in a run of generate_plates.py,  *)
(* with the outcomes of its attempts kept in q_log.                        *)
(***************************************************************************)
QueryOutcomes == {"row", "keyspace_not_found", "error"}

\* one attempt of the loop, logged
get_highest_existing_index(outcome) ==
    /\ ResumeAttempt(outcome)
    /\ q_log' = Append(q_log, outcome)
    /\ UNCHANGED <<batchVars, keyVars, seedVars, b_log, r_skipped, provVars>>

NextResume ==
    \/ pc = "idle" /\ Start("ok")
    \/ \E o \in QueryOutcomes : get_highest_existing_index(o)

SpecResume == Init /\ [][NextResume]_vars


(***************************************************************************)
(* SpecProvision: the functions that ensure a scope and a collection,      *)
(* call by call and store call by store call, while another party may      *)
(* create the scope or the collection at any moment.                       *)
(***************************************************************************)
Namespace == {"scope", "collection"}

ProvFrame ==
    UNCHANGED <<e_tool, q_log, b_log, r_skipped, plateVars, batchVars, keyVars,
                seedVars>>

\* the function is called
EnsureCalled ==
    /\ e_pc \in {"idle", "returned"}
    /\ e_calls < MaxCalls
    /\ e_pc' = "scopes"
    /\ e_seen' = {}
    /\ e_result' = "none"
    /\ e_tries' = 0
    /\ UNCHANGED <<ns, e_calls>>
    /\ ProvFrame

\* another party creates the scope, or the collection in the scope
OtherCreates ==
    /\ ns # Namespace
    /\ ns' = IF "scope" \in ns THEN Namespace ELSE {"scope"}
    /\ UNCHANGED <<e_pc, e_seen, e_result, e_calls, e_tries>>
    /\ ProvFrame

\* the function returns
Returned(result) ==
    /\ e_result' = result
    /\ e_pc' = "returned"
    /\ e_calls' = e_calls + 1

\* generate_plates.create_scope_and_collection, one store call at a time.
\* ScopeAlreadyExistsException and CollectionAlreadyExistsException are
\* CouchbaseExceptions, which the function's except branch turns into
\* `return False`.  The check query of the last loop succeeds (queryable)
\* or raises; after the last failed check the function returns True too.
create_scope_and_collection(queryable) ==
    /\ e_tool = "plates"
    /\ e_pc # "queryable" => (queryable /\ UNCHANGED e_tries)
    /\ \/ /\ e_pc = "scopes"
          /\ e_seen' = ns \cap {"scope"}
          /\ e_pc' = IF "scope" \in ns THEN "scopes_again" ELSE "create_scope"
          /\ UNCHANGED <<ns, e_result, e_calls>>
       \/ /\ e_pc = "create_scope"
          /\ IF "scope" \in ns
             THEN Returned("failed") /\ UNCHANGED <<ns, e_seen>>
             ELSE /\ ns' = ns \cup {"scope"}
                  /\ e_pc' = "scopes_again"
                  /\ UNCHANGED <<e_seen, e_result, e_calls>>
       \/ /\ e_pc = "scopes_again"
          /\ e_seen' = ns
          /\ e_pc' = IF "collection" \in ns THEN "queryable" ELSE "create_collection"
          /\ UNCHANGED <<ns, e_result, e_calls>>
       \/ /\ e_pc = "create_collection"
          /\ IF "collection" \in ns
             THEN Returned("failed") /\ UNCHANGED <<ns, e_seen>>
             ELSE /\ ns' = ns \cup {"collection"}
                  /\ e_pc' = "queryable"
                  /\ UNCHANGED <<e_seen, e_result, e_calls>>
       \/ /\ e_pc = "queryable"
          /\ IF queryable
             THEN Returned("ok") /\ UNCHANGED e_tries
             ELSE /\ e_tries' = e_tries + 1
                  /\ IF e_tries + 1 < QueryableChecks
                     THEN UNCHANGED <<e_pc, e_result, e_calls>>
                     ELSE Returned("ok")
          /\ UNCHANGED <<ns, e_seen>>
    /\ ProvFrame

\* ensure_scope_and_collection of generate_brands and of generate_models:
\* both checks read the one list of scopes fetched at the start; an
\* already-exists error of either create call is logged and passed over
ensure_scope_and_collection ==
    /\ e_tool \in {"brands", "models"}
    /\ UNCHANGED e_tries
    /\ \/ /\ e_pc = "scopes"
          /\ e_seen' = ns
          /\ IF "scope" \notin ns
             THEN e_pc' = "create_scope" /\ UNCHANGED <<e_result, e_calls>>
             ELSE IF "collection" \notin ns
             THEN e_pc' = "create_collection" /\ UNCHANGED <<e_result, e_calls>>
             ELSE Returned("ok")
          /\ UNCHANGED ns
       \/ /\ e_pc = "create_scope"
          /\ ns' = ns \cup {"scope"}
          /\ IF "collection" \notin e_seen
             THEN e_pc' = "create_collection" /\ UNCHANGED <<e_result, e_calls>>
             ELSE Returned("ok")
          /\ UNCHANGED e_seen
       \/ /\ e_pc = "create_collection"
          /\ ns' = Namespace
          /\ Returned("ok")
          /\ UNCHANGED e_seen
    /\ ProvFrame

\* source_2_destination.ensure_target_scope_and_collection, one store call
\* at a time: the collection is created without a check, and an
\* already-exists error of either create call is logged and passed over
ensure_target_step ==
    /\ e_tool = "replicate"
    /\ UNCHANGED e_tries
    /\ \/ /\ e_pc = "scopes"
          /\ e_seen' = ns \cap {"scope"}
          /\ e_pc' = IF "scope" \in ns THEN "create_collection" ELSE "create_scope"
          /\ UNCHANGED <<ns, e_result, e_calls>>
       \/ /\ e_pc = "create_scope"
          /\ ns' = ns \cup {"scope"}
          /\ e_pc' = "create_collection"
          /\ UNCHANGED <<e_seen, e_result, e_calls>>
       \/ /\ e_pc = "create_collection"
          /\ ns' = Namespace
          /\ Returned("ok")
          /\ UNCHANGED e_seen
    /\ ProvFrame

InitProvision ==
    /\ PlatesIdle
    /\ BatchIdle
    /\ KeysIdle
    /\ SeedIdle
    /\ q_log = <<>>
    /\ b_log = <<>>
    /\ r_skipped = {}
    /\ ns \in {{}, {"scope"}, Namespace}
    /\ e_tool \in {"plates", "brands", "models", "replicate"}
    /\ e_pc = "idle"
    /\ e_seen = {}
    /\ e_result = "none"
    /\ e_calls = 0
    /\ e_tries = 0

NextProvision ==
    \/ EnsureCalled
    \/ OtherCreates
    \/ \E queryable \in BOOLEAN : create_scope_and_collection(queryable)
    \/ ensure_scope_and_collection
    \/ ensure_target_step

SpecProvision == InitProvision /\ [][NextProvision]_vars


(***************************************************************************)
(* SpecReplicate: a run of source_2_destination.py in which no call of a   *)
(* store fails.                                                            *)
(***************************************************************************)
InitNoFailure == InitWrite /\ program = "replicate"

NextNoFailure ==
    \/ ReplStart(TRUE)
    \/ ensure_target_scope_and_collection("created")
    \/ ReplQuery(TRUE)
    \/ ReplRow("ok", "ok")
    \/ ReplFinished

SpecReplicate == InitNoFailure /\ [][NextNoFailure]_vars

(***************************************************************************)
(* SpecTransfer: a run of source_2_destination.py in which any call of a   *)
(* store may fail, with the collections whose id query raised kept in      *)
(* r_skipped.                                                              *)
(***************************************************************************)
\* the query for the document ids returns or raises, logged
LoggedQuery(ok) ==
    /\ QueryEnds(ok)
    /\ r_skipped' = IF ok THEN r_skipped ELSE r_skipped \cup {r_coll}
    /\ UNCHANGED <<plateVars, batchVars, keyVars, q_log, b_log, provVars>>

NextTransfer ==
    \/ \E connected \in BOOLEAN : ReplStart(connected)
    \/ \E o \in {"created", "collection_error", "raised"} :
          ensure_target_scope_and_collection(o)
    \/ \E ok \in BOOLEAN : LoggedQuery(ok)
    \/ \E get \in {"ok", "failed"}, upsert \in {"ok", "failed"} : ReplRow(get, upsert)
    \/ ReplFinished

SpecTransfer == InitNoFailure /\ [][NextTransfer]_vars


(***************************************************************************)
(* SpecScenario: generate_plates.py --total 250 --threads 4 --mode insert  *)
(* with batch_size 100 on an empty collection, run again and again; a      *)
(* write returns or raises an error that a retry may get past.             *)
(***************************************************************************)
InitScenario ==
    /\ bulk = 0
    /\ docs = [k \in {} |-> 0]
    /\ mode = "insert"
    /\ threads = 4
    /\ batch_size = 100
    /\ pc = "idle"
    /\ attempt = 0
    /\ query_failed = FALSE
    /\ highest_index = 0
    /\ total = -1
    /\ batches = <<>>
    /\ wphase = NoWorkers
    /\ wpos = NoWorkers
    /\ wattempt = NoWorkers
    /\ fault = "none"
    /\ results = <<>>
    /\ processed = -1
    /\ docs0 = docs
    /\ prev = NoRun
    /\ after = "none"
    /\ startup = "none"
    /\ BatchIdle
    /\ KeysIdle
    /\ SeedIdle
    /\ AuxIdle

NextScenario ==
    \/ Start("ok")
    \/ ResumeQuery("row")
    \/ Generate(250)
    \/ Dispatch("none")
    \/ \E w \in Workers, o \in {"ok", "transient"} : WriteReturns(w, o)
    \/ \E w \in Workers : SleepReturns(w)
    \/ Join

SpecScenario == InitScenario /\ [][NextScenario]_vars


(***************************************************************************)
(* The claims.                                                             *)
(***************************************************************************)
\* the collection d holds a document for every counter 1..t
HoldsAll(d, t) ==
    \A i \in (Min(bulk, t) + 1) .. t : generate_document_key(i) \in DOMAIN d

\* the collection d holds the documents of the counters 1..t and no other:
\* what a first run with total t that wrote all its t records leaves
HoldsExactly(d, t) ==
    /\ HoldsAll(d, t)
    /\ bulk <= t
    /\ \A k \in DOMAIN d : KeyIndex(k) <= t

Dispatched == pc \in {"dispatch", "join", "done"} /\ total >= 0

\* C1: a run with total T that follows an interrupted run with the same T
\* and ends with every batch written leaves every key 1..T in the
\* collection, and its resume offset has no counter at or below it missing.
C1_ResumeWithoutLoss ==
    /\ (pc = "done" /\ after = "interrupted" /\ RunClean) => HoldsAll(docs, total)
    /\ (Dispatched /\ after = "interrupted" /\ ~query_failed)
           => HoldsAll(docs0, highest_index)

\* C2: a run with total T that follows a run with the same T which wrote
\* every record, the collection holding exactly the keys 1..T, has resume
\* offset T and generates no record, so it has no batch to write.  (Stated
\* for the runs whose resume query returned a row.)
C2_ResumeIdempotence ==
    (Dispatched /\ after = "clean" /\ HoldsExactly(docs0, total) /\ ~query_failed)
        => (highest_index = total /\ batches = <<>>)

Ceil(n, b) == (n + b - 1) \div b

\* C3: a batching loop given N records and batch size B yields ceil(N/B)
\* batches, each of 1..B records, all of B records but the last, which has
\* N mod B records (B when that is 0); for N = 0 it yields none.
C3_BatchSizes ==
    batcher # "none" =>
        LET n == Len(yielded)
        IN  /\ n = Ceil(items, size)
            /\ \A i \in 1 .. n :
                  /\ 1 <= Len(yielded[i]) /\ Len(yielded[i]) <= size
                  /\ i < n => Len(yielded[i]) = size
            /\ n > 0 => Len(yielded[n]) =
                            (IF items % size = 0 THEN size ELSE items % size)

C3_Witness ==
    /\ batcher = "models"
    /\ Len(yielded) >= 3
    /\ Len(yielded[Len(yielded)]) < size

\* C4: a batch is reported failed only by the step that ends the sleep after
\* attempt number `retries`, process_batch never starts an attempt beyond
\* that, and that step hands the worker its next batch (or ends its slice).
C4_RetryExhaustion ==
    [][(pc = "join" /\ pc' = "join") =>
          \A w \in Workers :
             /\ wattempt'[w] < BatchRetries
             /\ (wphase[w] = "sleeping" /\ wattempt[w] = BatchRetries - 1
                    /\ wphase'[w] # "sleeping")
                   => /\ results'[BatchOf(w)] = "failed"
                      /\ wpos'[w] = wpos[w] + 1
                      /\ wphase'[w] \in {"inflight", "finished"}
                      /\ wattempt'[w] = 0
             /\ \A b \in 1 .. Len(results) :
                   (results[b] # "failed" /\ results'[b] = "failed"
                       /\ b \in {batch_slices(w)[j] : j \in 1 .. Len(batch_slices(w))})
                      => (wphase[w] = "sleeping" /\ wattempt[w] = BatchRetries - 1)
      ]_vars

C4_Witness ==
    /\ pc = "join"
    /\ fault = "none"
    /\ \E b \in 1 .. Len(results) : results[b] = "failed"
    /\ \E w \in Workers : wphase[w] = "inflight" /\ wpos[w] = 2

\* C5: while the store refuses the writes with a non-transient error no
\* worker sleeps a backoff delay and no worker makes a second attempt.
C5_PermanentNotRetried ==
    fault = "permanent" =>
        \A w \in DOMAIN wphase : wphase[w] # "sleeping" /\ wattempt[w] = 0

\* C6: when main is past the dispatch every batch has been attempted and the
\* run was not aborted: it reached its summary.
C6_FaultIsolation ==
    (pc = "done" /\ total >= 0) =>
        /\ \A b \in 1 .. Len(results) : results[b] # "pending"
        /\ processed >= 0

\* the records of the batches whose write returned
RECURSIVE RecordsWritten(_)
RecordsWritten(b) ==
    IF b = 0 THEN 0
    ELSE RecordsWritten(b - 1) + (IF results[b] = "ok" THEN Len(batches[b]) ELSE 0)

\* C7: the count the final summary reports is the number of records whose
\* batch was written; the records of a failed batch are not in it.
C7_FailuresCounted ==
    (pc = "done" /\ processed >= 0) => processed = RecordsWritten(Len(batches))

\* C8: the step that ends the dispatch is taken with no write in flight, no
\* worker in a delay, and every batch attempted.
C8_DispatchBarrier ==
    [][(pc = "join" /\ pc' = "done") =>
          /\ \A w \in Workers : wphase[w] \notin {"inflight", "sleeping"}
          /\ \A b \in 1 .. Len(results) : results[b] # "pending"
      ]_vars

\* one batch written: process_batch's write in the run's mode
WriteBatch(d, batch) ==
    IF mode = "insert" THEN insert_multi(d, Documents(batch))
                       ELSE upsert_multi(d, Documents(batch))

\* the batches written so far, written to d one after the other in the order
\* of the list
RECURSIVE WrittenInOrder(_, _)
WrittenInOrder(d, b) ==
    IF b > Len(batches) THEN d
    ELSE WrittenInOrder(IF results[b] = "ok" THEN WriteBatch(d, batches[b]) ELSE d,
                        b + 1)

\* C10: whatever the order in which the workers' writes returned, the
\* collection holds what writing the same batches in list order gives.
C10_WriteOrderImmaterial ==
    pc \in {"join", "done"} => docs = WrittenInOrder(docs0, 1)

C10_Witness ==
    /\ pc = "done"
    /\ threads >= 2
    /\ Len(batches) >= 3
    /\ \A b \in 1 .. Len(results) : results[b] = "ok"

\* C11: the keys of two records are equal exactly when their counters are:
\* the key is a function of the counter, and no two counters share a key.
C11_KeyUniqueness ==
    keyed # "none" => ((key_a = key_b) <=> (counter_a = counter_b))

C11_Witness ==
    /\ keyed = "brands"
    /\ counter_a = 1000
    /\ counter_b = 0
    /\ key_a # key_b

\* the counters of the stored documents
StoredIndexes(d) ==
    {KeyIndex(k) : k \in DOMAIN d} \cup (IF bulk > 0 THEN {bulk} ELSE {})

\* C12: when the resume query has returned a row, the offset is the largest
\* counter among the stored keys, and 0 when the collection holds no key.
C12_ResumeOffset ==
    (pc = "generate" /\ ~query_failed) =>
        highest_index = (IF StoredIndexes(docs) = {} THEN 0
                         ELSE SetMax(StoredIndexes(docs)))

\* a seeder's call on the next batch returns with no store error
SeederCallReturns ==
    /\ program \in {"brands", "models", "plates"}
    /\ s_pc = "running"
    /\ s_todo # <<>>
    /\ s_todo' = Tail(s_todo)
    /\ s_last'.outcome = "returned"

\* the positions of the batch in hand whose key the collection holds
Duplicates == {i \in 1 .. Len(Head(s_todo)) : Head(s_todo)[i][1] \in DOMAIN store}

\* C13: when an insert-mode call of the brand or the model seeder returns,
\* every key of its batch that existed kept its document and every other
\* record of the batch is stored; the brand seeder counted the existing keys
\* as skipped and none as failed, and the model seeder's list of failed
\* documents is empty.
C13_DuplicateSkipped ==
    [][(SeederCallReturns /\ program \in {"brands", "models"} /\ s_mode = "insert") =>
          LET batch == Head(s_todo)
          IN  /\ \A i \in 1 .. Len(batch) :
                    store'[batch[i][1]] =
                        (IF i \in Duplicates THEN store[batch[i][1]] ELSE batch[i][2])
              /\ program = "brands" =>
                    /\ stats'.skipped = stats.skipped + Cardinality(Duplicates)
                    /\ stats'.failed = stats.failed
              /\ program = "models" => failed_documents' = <<>>
      ]_vars

\* a row whose upsert returned
RowUpserted ==
    /\ program = "replicate"
    /\ r_pc = "rows"
    /\ r_rows # <<>>
    /\ r_rows' = Tail(r_rows)
    /\ r_last'.upsert = "ok"

\* C14: when an upsert of the brand seeder or of the replication tool
\* returns, every key written holds the value just written, whether or not
\* it held another one before, and the records are counted as successful
\* (transferred) and as nothing else.
C14_UpsertOverwrite ==
    [][/\ (SeederCallReturns /\ program = "brands" /\ s_mode = "upsert") =>
             LET batch == Head(s_todo)
             IN  /\ \A i \in 1 .. Len(batch) : store'[batch[i][1]] = batch[i][2]
                 /\ stats' = [stats EXCEPT !.successful = @ + Len(batch)]
       /\ RowUpserted =>
             /\ store'[TargetKey(r_coll, Head(r_rows))] = SourceDoc(r_coll, Head(r_rows))
             /\ transferred' = [transferred EXCEPT ![r_coll] = @ + 1]
             /\ total_docs_transferred' = total_docs_transferred + 1
      ]_vars

\* a brand upsert returned whose batch had a key that held another value
C14_Witness ==
    /\ program = "brands"
    /\ s_mode = "upsert"
    /\ s_last.outcome = "returned"
    /\ \E i \in 1 .. Len(s_last.batch) :
          /\ s_last.batch[i][1] \in DOMAIN s_last.before
          /\ s_last.before[s_last.batch[i][1]] # s_last.batch[i][2]
          /\ store[s_last.batch[i][1]] = s_last.batch[i][2]

\* the batch of a call, written once more to the collection d
WrittenAgain(d, batch) ==
    IF s_mode = "upsert" THEN upsert_multi(d, Documents(batch))
    ELSE IF program = "plates" THEN insert_multi(d, Documents(batch))
    ELSE InsertEach(d, batch, Len(batch)).store

\* C15: when a call has written its batch, writing the same batch once more
\* changes nothing; after an upsert the keys hold the batch's values, and an
\* insert leaves every key that existed with the value it had (the brand
\* seeder counts it as skipped).
C15_IdempotentWrite ==
    [][SeederCallReturns =>
          LET batch == Head(s_todo)
          IN  /\ WrittenAgain(store', batch) = store'
              /\ s_mode = "upsert" =>
                    \A i \in 1 .. Len(batch) : store'[batch[i][1]] = batch[i][2]
              /\ s_mode = "insert" =>
                    /\ \A k \in DOMAIN store : store'[k] = store[k]
                    /\ program = "brands" =>
                          stats'.skipped = stats.skipped + Cardinality(Duplicates)
      ]_vars

\* a batch of two records was written to a collection that held both
\* records already
C15_Witness ==
    /\ program = "plates"
    /\ s_mode = "insert"
    /\ s_last.outcome = "returned"
    /\ Len(s_last.batch) = 2
    /\ \A i \in 1 .. 2 :
          /\ s_last.batch[i][1] \in DOMAIN s_last.before
          /\ s_last.before[s_last.batch[i][1]] = s_last.batch[i][2]
          /\ store[s_last.batch[i][1]] = s_last.batch[i][2]

\* C18: for a collection whose target could not be provisioned no point read
\* and no upsert is issued, and the run is not aborted.
C18_NamespaceErrorSkips ==
    \A c \in Collections :
        r_provision[c] = "failed" =>
            /\ r_gets[c] = 0
            /\ r_upserts[c] = 0
            /\ r_pc # "aborted"

\* a row whose point read failed
RowNotRead ==
    /\ program = "replicate"
    /\ r_pc = "rows"
    /\ r_rows # <<>>
    /\ r_rows' = Tail(r_rows)
    /\ r_last'.get = "failed"

\* C19: the step that handles a row whose point read failed issues no upsert,
\* leaves the target and the transferred counts as they were, and leaves main
\* in the loop over the rows, at the next row.
C19_FailedReadEmitsNothing ==
    [][RowNotRead =>
          /\ r_upserts' = r_upserts
          /\ store' = store
          /\ transferred' = transferred
          /\ total_docs_transferred' = total_docs_transferred
          /\ r_pc' = "rows"
          /\ r_coll' = r_coll
      ]_vars

\* the first read of a collection with two documents failed, the second one
\* was read and upserted
C19_Witness ==
    /\ program = "replicate"
    /\ r_pc = "rows"
    /\ r_rows = <<>>
    /\ r_gets[r_coll] = 2
    /\ r_upserts[r_coll] = 1
    /\ transferred[r_coll] = 1
    /\ r_last.id = 2
    /\ r_last.upsert = "ok"

\* C20: while the pool runs, worker w's slice is the batches whose 0-based
\* index is congruent to w modulo the number of workers, in increasing
\* order; every batch is in exactly one slice; the batch a worker has in
\* hand is of its slice, and a batch that was attempted was attempted by the
\* worker whose slice it is in.
C20_RoundRobin ==
    pc = "join" =>
        /\ \A w \in Workers :
              LET sl == batch_slices(w)
              IN  /\ {sl[j] : j \in 1 .. Len(sl)}
                        = {b \in 1 .. Len(batches) : (b - 1) % threads = w}
                  /\ \A j \in 1 .. (Len(sl) - 1) : sl[j] < sl[j + 1]
                  /\ wphase[w] # "finished" => (BatchOf(w) - 1) % threads = w
        /\ \A b \in 1 .. Len(batches) :
              /\ Cardinality({w \in Workers :
                     \E j \in 1 .. Len(batch_slices(w)) : batch_slices(w)[j] = b}) = 1
              /\ results[b] # "pending" =>
                    LET w == (b - 1) % threads
                        p == ((b - 1) \div threads) + 1
                    IN  p < wpos[w] \/ (p = wpos[w] /\ wphase[w] = "raised")

C20_Witness ==
    /\ pc = "join"
    /\ threads = 2
    /\ Len(batches) = 3
    /\ wpos = [w \in Workers |-> 2]
    /\ wphase[0] = "inflight"
    /\ wphase[1] = "finished"
    /\ results = <<"ok", "ok", "pending">>

\* the keys of the records of the batches, batch by batch
BatchKeys(b) == {batches[b][j][1] : j \in 1 .. Len(batches[b])}

\* C16: the run of the scenario that starts on the empty collection and has
\* every batch written forms 3 batches of 100, 100 and 50 records, whose
\* keys are pairwise different and are the 9-digit keys of the counters
\* 1..250; the collection then holds these 250 keys and no other, the
\* summary counts 250 records, all of them written, and no batch failed.
C16_Scenario ==
    (pc = "done" /\ total = 250 /\ highest_index = 0 /\ DOMAIN docs0 = {} /\ RunClean) =>
        /\ Len(batches) = 3
        /\ Len(batches[1]) = 100 /\ Len(batches[2]) = 100 /\ Len(batches[3]) = 50
        /\ \A b, c \in 1 .. 3 : b # c => BatchKeys(b) \cap BatchKeys(c) = {}
        /\ \A b \in 1 .. 3 : Cardinality(BatchKeys(b)) = Len(batches[b])
        /\ DOMAIN docs = {generate_document_key(i) : i \in 1 .. 250}
        /\ Cardinality(DOMAIN docs) = 250
        /\ \A k \in DOMAIN docs :
              /\ Len(k.suffix) = 9
              /\ KeyIndex(k) \in 1 .. 250
              /\ docs[k] = Document(KeyIndex(k))
        /\ processed = 250
        /\ RecordsWritten(3) = 250
        /\ \A b \in 1 .. 3 : results[b] = "ok"

C16_Witness ==
    /\ pc = "done"
    /\ total = 250
    /\ highest_index = 0
    /\ DOMAIN docs0 = {}
    /\ RunClean
    /\ threads = 4 /\ batch_size = 100 /\ mode = "insert"
    /\ Cardinality(DOMAIN docs) = 250

\* C17: the finished process has exit status 1 exactly when its
\* configuration was invalid or the connection could not be established.
C17_ExitCodes ==
    pc = "done" => ((ExitCode = 1) <=> (startup \in {"invalid_config", "connect_failed"}))

\* the batches of a list, one after the other
RECURSIVE Flatten(_)
Flatten(seqs) == IF seqs = <<>> THEN <<>> ELSE Head(seqs) \o Flatten(Tail(seqs))

\* C22: with resume offset h and total T the run generates max(0, T - h)
\* records, and the j-th of them in the order of generation is the record of
\* the counter h + j: the counters h+1 .. T in increasing order, none at or
\* below h and none above T.
C22_GeneratedIndices ==
    Dispatched =>
        LET generated == Flatten(batches)
        IN  /\ Len(generated) = Max(0, total - highest_index)
            /\ highest_index >= total => batches = <<>>
            /\ \A j \in 1 .. Len(generated) :
                  /\ generated[j] = generate_license_plate_data(highest_index + j)
                  /\ generated[j][2].random = highest_index + j
                  /\ highest_index < highest_index + j /\ highest_index + j <= total

\* a run that resumed above 0 and generated the two counters up to its total
C22_Witness ==
    /\ Dispatched
    /\ highest_index = 1
    /\ total = 3
    /\ Len(Flatten(batches)) = 2

\* C23: the batches a batching loop yields, one after the other, are the
\* input records in their order of arrival, each once: record j of the
\* output is made from input j (for the model seeder: from model j in the
\* order of the file, with the brand of its car).
C23_ArrivalOrder ==
    batcher # "none" =>
        LET out == Flatten(yielded)
        IN  /\ Len(out) = items
            /\ \A j \in 1 .. Len(out) :
                  /\ batcher = "plates" => out[j] = generate_license_plate_data(j)
                  /\ batcher = "brands" =>
                        out[j] = <<BrandKey(j), BrandsInput(items)[j]>>
                  /\ batcher = "models" =>
                        /\ out[j][1] = CarModelKey(j)
                        /\ out[j][2].car_model_id = CarModelKey(j)
                        /\ out[j][2].model = <<"model", j>>
                        /\ out[j][2].brand
                              = CarsInput(items, per_car)[((j - 1) \div per_car) + 1].brand

\* seven models of four cars came out as three batches
C23_Witness ==
    /\ batcher = "models"
    /\ items = 7
    /\ per_car = 2
    /\ Len(yielded) = 3
    /\ Len(Flatten(yielded)) = 7

\* a call of process_brands_batch in upsert mode ends
BrandsUpsertEnds ==
    /\ program = "brands"
    /\ s_mode = "upsert"
    /\ s_pc = "running"
    /\ s_todo # <<>>
    /\ s_todo' = Tail(s_todo)

\* C24: when the brand seeder's upsert call returns, all the records of the
\* batch are added to the successful count and to no other; when it raises a
\* store error, all of them are added to the failed count and to no other,
\* whatever part of the batch the store had written by then.
C24_UpsertAllOrNothing ==
    [][BrandsUpsertEnds =>
          LET batch == Head(s_todo)
          IN  /\ s_last'.outcome = "returned" =>
                    stats' = [stats EXCEPT !.successful = @ + Len(batch)]
              /\ s_last'.outcome = "store_error" =>
                    stats' = [stats EXCEPT !.failed = @ + Len(batch)]
      ]_vars

\* an upsert of two records raised after the store had written one of them
C24_Witness ==
    /\ program = "brands"
    /\ s_mode = "upsert"
    /\ s_last.outcome = "store_error"
    /\ Len(s_last.batch) = 2
    /\ stats = [successful |-> 0, skipped |-> 0, failed |-> 2]
    /\ DOMAIN store = {s_last.batch[1][1]}

\* C25: a worker is in a backoff delay only between two attempts: whenever
\* it sleeps, process_batch has another attempt to make afterwards.
C25_DelaysBetweenAttempts ==
    \A w \in DOMAIN wphase :
        wphase[w] = "sleeping" => AnotherAttempt(wattempt[w])

\* the positions of worker w's slice whose batch was started and has not
\* returned
InProgress(w) ==
    {j \in 1 .. Len(batch_slices(w)) :
        j <= wpos[w] /\ results[batch_slices(w)[j]] = "pending"}

\* C26: while the pool runs, at most `threads` batch writes are in progress
\* (written, retried or delayed), each worker has at most one batch of its
\* slice in progress, every batch before it in the slice has returned (True
\* or False) and none after it has been started.
C26_BoundedParallelism ==
    pc = "join" =>
        /\ Cardinality({w \in DOMAIN wphase : wphase[w] \in {"inflight", "sleeping"}})
              <= threads
        /\ Cardinality({b \in 1 .. Len(batches) :
               \E w \in DOMAIN wphase : \E j \in InProgress(w) : batch_slices(w)[j] = b})
              <= threads
        /\ \A w \in DOMAIN wphase :
              /\ Cardinality(InProgress(w)) <= 1
              /\ wphase[w] \in {"inflight", "sleeping"} => InProgress(w) = {wpos[w]}
              /\ \A j \in 1 .. Len(batch_slices(w)) :
                    /\ j < wpos[w] => results[batch_slices(w)[j]] \in {"ok", "failed"}
                    /\ j > wpos[w] => results[batch_slices(w)[j]] = "pending"

\* both workers have a batch in progress, one of them its second
C26_Witness ==
    /\ pc = "join"
    /\ threads = 2
    /\ Len(batches) = 3
    /\ wphase[0] = "inflight" /\ wpos[0] = 2
    /\ wphase[1] = "sleeping" /\ wpos[1] = 1
    /\ results = <<"failed", "pending", "pending">>

\* C27: main is at the resume query, the generation, the dispatch or the
\* join only in a run whose provisioning returned True, and only such a run
\* has changed the collection since it started; a run whose provisioning
\* returned False has ended without a resume offset, a record, a batch or a
\* write.
C27_ProvisioningFirst ==
    /\ pc \in {"resume", "generate", "dispatch", "join"} => startup = "ok"
    /\ (pc # "idle" /\ docs # docs0) => startup = "ok"
    /\ startup = "provision_failed" =>
          /\ pc = "done"
          /\ highest_index = 0
          /\ total = -1
          /\ batches = <<>>
          /\ results = <<>>
          /\ processed = -1
          /\ docs = docs0

\* a run on a collection that earlier runs wrote to, whose provisioning
\* returned False
C27_Witness ==
    /\ pc = "done"
    /\ startup = "provision_failed"
    /\ DOMAIN docs # {}

\* C28: a run that nothing terminates from outside ends: from the resume
\* query, the generation, the dispatch or the join main reaches its last
\* line, whatever the store answers.
C28_Termination ==
    (pc \in {"resume", "generate", "dispatch", "join"}) ~> (pc = "done")

\* a run of three batches has ended with every batch failed after its last
\* attempt
C28_Witness ==
    /\ pc = "done"
    /\ processed >= 0
    /\ Len(results) = 3
    /\ \A b \in 1 .. 3 : results[b] = "failed"

\* C30: when a replication run in which no call failed has ended, the target
\* scope has a collection for every source collection listed, which holds
\* under every id the query returned the document read from the source (and
\* not what it held before), and the collection's transferred count is the
\* number of ids returned.
C30_ReplicationCorrect ==
    r_pc = "done" =>
        \A c \in Collections :
            /\ c \in target_colls
            /\ \A id \in 1 .. source[c] :
                  /\ [collection |-> c, id |-> id] \in DOMAIN store
                  /\ store[[collection |-> c, id |-> id]] = SourceDoc(c, id)
            /\ transferred[c] = source[c]
            /\ r_gets[c] = source[c]
            /\ r_upserts[c] = source[c]

\* a run over two collections of two and one documents has ended
C30_Witness ==
    /\ r_pc = "done"
    /\ source[1] = 2
    /\ source[2] = 1
    /\ transferred[1] = 2
    /\ transferred[2] = 1
    /\ Cardinality(DOMAIN store) = 3

\* the attempts of q_log before its last one
Earlier(log) == SubSeq(log, 1, Len(log) - 1)

\* C21: the resume query is attempted at most `retries` times.  Every
\* attempt that was followed by another one reported 'Keyspace not found';
\* while the function is in its loop fewer than `retries` attempts were
\* made; after an attempt that raised another error the function has
\* returned 0; and when the last attempt reported 'Keyspace not found' the
\* function has returned 0 and that attempt was attempt number `retries`.
C21_ResumeRetries ==
    /\ Len(q_log) <= QueryRetries
    /\ \A i \in 1 .. Len(Earlier(q_log)) : q_log[i] = "keyspace_not_found"
    /\ pc = "resume" =>
          /\ Len(q_log) < QueryRetries
          /\ Len(q_log) = attempt
          /\ q_log # <<>> => q_log[Len(q_log)] = "keyspace_not_found"
    /\ pc = "generate" =>
          /\ q_log # <<>>
          /\ q_log[Len(q_log)] = "error" =>
                highest_index = 0 /\ query_failed
          /\ q_log[Len(q_log)] = "keyspace_not_found" =>
                Len(q_log) = QueryRetries /\ highest_index = 0 /\ query_failed

\* every attempt reported 'Keyspace not found', on a collection that holds
\* documents: the function returned 0 after attempt number `retries`
C21_Witness ==
    /\ pc = "generate"
    /\ Len(q_log) = QueryRetries
    /\ \A i \in 1 .. Len(q_log) : q_log[i] = "keyspace_not_found"
    /\ highest_index = 0
    /\ bulk > 0

\* C29: whenever a function that ensures the scope and the collection has
\* returned, it has succeeded and both exist, whether they existed before,
\* were created by the call or were created by another party during the
\* call; so a second call leaves the namespace the first one left.
C29_ProvisioningIdempotent ==
    e_pc = "returned" => (e_result = "ok" /\ ns = Namespace)

\* the workers that are in a process_batch call
InCall == {w \in DOMAIN wphase : wphase[w] \in {"inflight", "sleeping"}}

\* C31: process_batch stops at the first write attempt that does not raise.
\* A batch whose write returned at `attempt` = a has its result True from
\* that step on, and in every later state of the run it has caused exactly
\* a + 1 store calls and the a delays of the failed attempts before: no
\* worker is in a call for it any more, so no further store call and no
\* further delay follows.  A batch has result True only if a write of it
\* returned.
C31_StopsAtFirstSuccess ==
    /\ \A b \in DOMAIN b_log :
          b_log[b].returned >= 0 =>
             /\ results[b] = "ok"
             /\ b_log[b].calls = b_log[b].returned + 1
             /\ b_log[b].sleeps = b_log[b].returned
             /\ \A w \in InCall : BatchOf(w) # b
    /\ \A b \in DOMAIN results :
          results[b] = "ok" => LogOf(b_log, b).returned >= 0

\* a batch succeeded at its last attempt and the run went on to its summary
C31_Witness ==
    /\ pc = "done"
    /\ \E b \in DOMAIN b_log :
          /\ b_log[b].returned = BatchRetries - 1
          /\ b_log[b].calls = BatchRetries
    /\ \E b \in DOMAIN b_log : b_log[b].returned = 0 /\ b_log[b].calls = 1

\* stats["successful"] + stats["skipped"] + stats["failed"]
Counted == stats.successful + stats.skipped + stats.failed

\* C32: counter conservation in the brand seeder.  Every call of
\* process_brands_batch increases successful + skipped + failed by exactly
\* len(batch), in both modes and whatever store error ends the call.
C32_CounterConservation ==
    [][(program = "brands" /\ s_todo # <<>> /\ s_todo' = Tail(s_todo)) =>
          Counted' = Counted + Len(Head(s_todo))]_vars

RECURSIVE TransferredUpTo(_)
TransferredUpTo(n) ==
    IF n = 0 THEN 0 ELSE transferred[n] + TransferredUpTo(n - 1)

\* the ids of collection c under which the target holds the source's document
Arrived(c) ==
    {id \in 1 .. source[c] :
        /\ TargetKey(c, id) \in DOMAIN store
        /\ store[TargetKey(c, id)] = SourceDoc(c, id)}

\* the loop over the rows handles one row
RowHandled ==
    /\ program = "replicate"
    /\ r_pc = "rows"
    /\ r_rows # <<>>
    /\ r_rows' = Tail(r_rows)

\* C34: in the replication tool total_docs_transferred equals the sum of
\* the per-collection transferred counters in every reachable state, and
\* each per-collection counter equals the number of upserts into that
\* target collection that returned without error: it counts the documents
\* that arrived there, a row whose upsert returned adds one to the counter
\* of its collection and to the total, and a row whose upsert failed (or
\* whose read failed, so that none was issued) changes no counter.
C34_TransferredCounters ==
    /\ [](program = "replicate" =>
             /\ total_docs_transferred = TransferredUpTo(MaxCollections)
             /\ \A c \in Collections : transferred[c] = Cardinality(Arrived(c)))
    /\ [][RowHandled =>
             IF r_last'.upsert = "ok"
             THEN /\ transferred' = [transferred EXCEPT ![r_coll] = @ + 1]
                  /\ total_docs_transferred' = total_docs_transferred + 1
             ELSE /\ transferred' = transferred
                  /\ total_docs_transferred' = total_docs_transferred]_vars

\* both collections have a returned upsert, and the last upsert failed
C34_Witness ==
    /\ r_pc = "rows"
    /\ r_last.upsert = "failed"
    /\ \A c \in Collections : transferred[c] > 0
    /\ total_docs_transferred = TransferredUpTo(MaxCollections)
    /\ total_docs_transferred < r_upserts[1] + r_upserts[2]

=============================================================================
